---------------------------- MODULE Spec2Model ----------------------------
(***************************************************************************)
(* Model of the synthetic transaction generator (src/src/data_generator.py)*)
(* of the anomaly detector wrapper (src/src/model_trainer.py) and of the   *)
(* categorical encoding of src/src/data_processor.py.                      *)
(*                                                                         *)
(* Money is kept in cents (the code rounds every amount to 2 decimals).    *)
(* Wall-clock time and timestamps are minutes since an arbitrary epoch.    *)
(* The process-wide `random` module state is one integer; it is shared by  *)
(* every generator instance, as in the code.                               *)
(***************************************************************************)
EXTENDS Integers, Sequences, FiniteSets, TLC

VARIABLES rng, now, gens, lastRow, det, proc, loop, pools

vars == <<rng, now, gens, lastRow, det, proc, loop, pools>>

-----------------------------------------------------------------------------
(* Bounds of the model *)

MaxN == 3          \* largest n_transactions passed to a constructor
MaxSeed == 2       \* seeds are 0..MaxSeed
MaxRuns == 2       \* generate_dataset calls per generator instance
MaxTicks == 1      \* wall-clock advances
MaxRows == 2       \* rows of a feature matrix handed to the detector
MaxFits == 2       \* train calls that reach a fit

Generators == {1, 2}
Seeds == 0 .. MaxSeed

\* anomaly_ratio is RatioNum / RatioDen; eighths are exact in binary floating
\* point, so n * ratio is computed exactly by the code for these inputs.
RatioDen == 8
RatioNums == {-4, 0, 3, 4, 7, 8, 12}

\* random.random() is raw / UDen for raw in 0 .. UDen-1
UDen == 20

\* minutes
MinutesPerHour == 60
MinutesPerDay == 1440
NowBase == 525600 + 600      \* first wall-clock reading: day 365, 10:00
TickStep == 3 * MinutesPerHour + 15   \* one wall-clock advance: 3 h 15 min

-----------------------------------------------------------------------------
(* Class constants of TransactionDataGenerator *)

CURRENCIES == <<"EUR", "USD", "GBP", "CHF">>
CHANNELS == <<"web", "app", "cajero", "sucursal">>
DEVICES == <<"desktop", "mobile", "tablet", "atm", "pos">>
UNUSUAL_COUNTRIES == <<"RU", "CN", "KP", "IR", "SY", "AF", "YE", "NG", "PK">>

\* LOW_RANGE_PROBABILITY = 0.70 and MEDIUM_RANGE_PROBABILITY = 0.95, in
\* units of 1/UDen
LOW_RANGE_PROBABILITY == 14
MEDIUM_RANGE_PROBABILITY == 19

\* range multipliers 0.3 / 0.3 / 0.8 / 0.8, in hundredths (cents per unit)
LOW_RANGE_MULTIPLIER == 30
MEDIUM_RANGE_MIN_MULTIPLIER == 30
MEDIUM_RANGE_MAX_MULTIPLIER == 80
HIGH_RANGE_MIN_MULTIPLIER == 80

MAX_TRANSACTION_AMOUNT == 100000
MIN_CUSTOMERS == 100
TRANSACTIONS_PER_CUSTOMER == 50
ANOMALY_CUSTOMERS_RATIO == 10

CUSTOMER_PROFILES ==
  [ low_spender |->
      [typical_range |-> <<10, 500>>, typical_hour_range |-> <<9, 21>>,
       typical_countries |-> <<"ES", "FR", "IT">>],
    medium_spender |->
      [typical_range |-> <<100, 3000>>, typical_hour_range |-> <<8, 22>>,
       typical_countries |-> <<"ES", "FR", "DE", "IT", "GB">>],
    high_spender |->
      [typical_range |-> <<1000, 15000>>, typical_hour_range |-> <<8, 23>>,
       typical_countries |-> <<"ES", "FR", "DE", "IT", "GB", "US">>],
    business |->
      [typical_range |-> <<500, 25000>>, typical_hour_range |-> <<7, 19>>,
       typical_countries |-> <<"ES", "FR", "DE", "US", "GB", "CH">>] ]

\* list(self.CUSTOMER_PROFILES.keys()), in insertion order
CustomerTypes == <<"low_spender", "medium_spender", "high_spender", "business">>

ANOMALY_TYPES ==
  <<"high_amount_unusual_user", "unusual_time", "unusual_country",
    "combined_anomaly">>

LOW_SPENDER_THRESHOLD == 5000
HIGH_AMOUNT_MIN == 10000
UNUSUAL_HOURS == <<0, 1, 2, 3, 4, 5, 23>>
DAYS_LOOKBACK == 365

EuroCountries == {"ES", "FR", "DE", "IT"}

-----------------------------------------------------------------------------
(* Small helpers *)

Range(s) == {s[i] : i \in 1 .. Len(s)}

Max(a, b) == IF a >= b THEN a ELSE b
Min(a, b) == IF a <= b THEN a ELSE b

DigitChars == <<"0", "1", "2", "3", "4", "5", "6", "7", "8", "9">>

\* str(i) for i >= 0, as a sequence of one-character strings
RECURSIVE Str(_)
Str(i) == IF i < 10 THEN <<DigitChars[i + 1]>>
          ELSE Append(Str(i \div 10), DigitChars[(i % 10) + 1])

\* s.zfill(w): pad with "0" on the left, never truncate
RECURSIVE ZFill(_, _)
ZFill(s, w) == IF Len(s) >= w THEN s ELSE ZFill(<<"0">> \o s, w)

\* f"CUST{str(i).zfill(6)}"
CustomerId(i) == <<"C", "U", "S", "T">> \o ZFill(Str(i), 6)

\* f"TXN{str(i).zfill(8)}"
TransactionId(i) == <<"T", "X", "N">> \o ZFill(Str(i), 8)

\* the value None of the transaction_id column before IDs are assigned
NoneId == <<>>

\* int(x) for the rational x = p / q, q > 0: truncation toward zero
IntTrunc(p, q) == IF p >= 0 THEN p \div q ELSE -((-p) \div q)

\* round(x) for the rational x = p / q, q > 0, p >= 0: nearest, ties to even
RoundHalfEven(p, q) ==
  LET f == p \div q
      r == p % q
  IN  IF 2 * r < q THEN f
      ELSE IF 2 * r > q THEN f + 1
      ELSE IF f % 2 = 0 THEN f ELSE f + 1

-----------------------------------------------------------------------------
(* The `random` module: one process-wide state.  The generator behind it   *)
(* is modelled by a 16-bit linear congruential generator; what the model   *)
(* keeps of it is that every draw is a function of the state and advances  *)
(* the state.                                                              *)

RngModulus == 65536

\* the state after one draw
NextRng(s) == (25173 * s + 13849) % RngModulus

\* random.seed(seed)
RandomSeed(seed) == NextRng(seed % RngModulus)

\* the k-th state after s
RECURSIVE Skip(_, _)
Skip(s, k) == IF k = 0 THEN s ELSE Skip(NextRng(s), k - 1)

\* random._randbelow(k): 0 .. k-1
RandBelow(s, k) == (s * k) \div RngModulus

\* random.random(), in units of 1/UDen
RandomRaw(s) == RandBelow(s, UDen)

\* random.randint(a, b), both ends included
RandInt(s, a, b) == a + RandBelow(s, b - a + 1)

\* the index random.choice(seq) picks (1-based)
ChoiceIdx(s, seq) == 1 + RandBelow(s, Len(seq))


\* the rng states seen by n successive draws starting at s
Draws(s, n) == [k \in 1 .. n |-> Skip(s, k - 1)]

-----------------------------------------------------------------------------
(* Customer profiles *)

\* the profile dictionary built at lines 112-119
MakeProfile(customer_type, home_country) ==
  LET profile_config == CUSTOMER_PROFILES[customer_type]
  IN  [ type |-> customer_type,
        typical_range |-> profile_config.typical_range,
        typical_hour_range |-> profile_config.typical_hour_range,
        typical_countries |-> profile_config.typical_countries,
        home_country |-> home_country,
        transaction_count |-> 0 ]

\* _create_customer_profile: two draws (type, home country)
CreateCustomerProfile(s) ==
  LET customer_type == CustomerTypes[ChoiceIdx(s, CustomerTypes)]
      countries == CUSTOMER_PROFILES[customer_type].typical_countries
  IN  MakeProfile(customer_type, countries[ChoiceIdx(NextRng(s), countries)])

\* a look-up that builds a new profile whether or not the id is stored
GetCustomerProfileAnew(profiles, customer_id, s) ==
  [ profiles |-> [c \in DOMAIN profiles \cup {customer_id} |->
                    IF c = customer_id THEN CreateCustomerProfile(s)
                    ELSE profiles[c]],
    rng |-> Skip(s, 2) ]

\* _get_customer_profile: the store after the look-up, and the rng after it
GetCustomerProfile(profiles, customer_id, s) ==
  IF customer_id \notin DOMAIN profiles
    THEN [ profiles |-> [c \in DOMAIN profiles \cup {customer_id} |->
                           IF c = customer_id THEN CreateCustomerProfile(s)
                           ELSE profiles[c]],
           rng |-> Skip(s, 2) ]
    ELSE [ profiles |-> profiles, rng |-> s ]

\* the empty store, self.customer_profiles = {}
NoProfiles == [c \in {} |-> 0]

-----------------------------------------------------------------------------
(* Row synthesis.  d[k] is the rng state seen by the k-th draw of the row. *)

\* a uniform draw that takes hi for the width of the interval
UniformCentsWidth(s, lo, hi) == lo + RoundHalfEven(hi * RandomRaw(s), UDen)

\* round(random.uniform(lo, hi), 2), lo and hi in cents
UniformCents(s, lo, hi) == lo + RoundHalfEven((hi - lo) * RandomRaw(s), UDen)

\* start_date + timedelta(days, hours, minutes)
Timestamp(start_date, days, hours, minutes) ==
  start_date + days * MinutesPerDay + hours * MinutesPerHour + minutes

\* the channel drawn from DEVICES and the device from CHANNELS
TailFieldsSwapped(origin_country, d, k) ==
  LET euro == origin_country \in EuroCountries
      j == IF euro THEN k ELSE k + 1
  IN  [ currency |-> IF euro THEN "EUR" ELSE CURRENCIES[ChoiceIdx(d[k], CURRENCIES)],
        channel |-> DEVICES[ChoiceIdx(d[j], DEVICES)],
        device_type |-> CHANNELS[ChoiceIdx(d[j + 1], CHANNELS)],
        used |-> j + 1 ]

\* 'EUR' if origin_country in [...] else random.choice(CURRENCIES); the
\* channel and device draws follow.  k is the index of the first of them.
TailFields(origin_country, d, k) ==
  LET euro == origin_country \in EuroCountries
      j == IF euro THEN k ELSE k + 1
  IN  [ currency |-> IF euro THEN "EUR" ELSE CURRENCIES[ChoiceIdx(d[k], CURRENCIES)],
        channel |-> CHANNELS[ChoiceIdx(d[j], CHANNELS)],
        device_type |-> DEVICES[ChoiceIdx(d[j + 1], DEVICES)],
        used |-> j + 1 ]

\* a normal amount whose high segment runs past the profile's maximum
NormalAmountPastMax(profile, d) ==
  LET min_amount == profile.typical_range[1]
      max_amount == profile.typical_range[2]
      range_span == max_amount - min_amount
  IN  IF RandomRaw(d[1]) < MEDIUM_RANGE_PROBABILITY
        THEN UniformCents(d[2], min_amount * 100,
                          min_amount * 100 + range_span * MEDIUM_RANGE_MAX_MULTIPLIER)
        ELSE UniformCents(d[2],
                          min_amount * 100 + range_span * HIGH_RANGE_MIN_MULTIPLIER,
                          max_amount * 100 + range_span * HIGH_RANGE_MIN_MULTIPLIER)

\* the amount of a normal row (cents), lines 166-192
NormalAmount(profile, d) ==
  LET min_amount == profile.typical_range[1]
      max_amount == profile.typical_range[2]
      range_span == max_amount - min_amount
      rand_val == RandomRaw(d[1])
      amount ==
        IF rand_val < LOW_RANGE_PROBABILITY
          THEN UniformCents(d[2], min_amount * 100,
                            min_amount * 100 + range_span * LOW_RANGE_MULTIPLIER)
        ELSE IF rand_val < MEDIUM_RANGE_PROBABILITY
          THEN UniformCents(d[2],
                            min_amount * 100 + range_span * MEDIUM_RANGE_MIN_MULTIPLIER,
                            min_amount * 100 + range_span * MEDIUM_RANGE_MAX_MULTIPLIER)
        ELSE UniformCents(d[2],
                          min_amount * 100 + range_span * HIGH_RANGE_MIN_MULTIPLIER,
                          max_amount * 100)
  IN  Min(amount, MAX_TRANSACTION_AMOUNT * 100)

\* one iteration of the loop of _generate_normal_transactions after the
\* profile look-up: the row, the hour drawn, the number of draws used
NormalRow(customer_id, profile, start_date, d) ==
  LET hour == RandInt(d[3], profile.typical_hour_range[1],
                      profile.typical_hour_range[2])
      timestamp == Timestamp(start_date, RandInt(d[4], 0, DAYS_LOOKBACK), hour,
                             RandInt(d[5], 0, 59))
      origin_country == profile.home_country
      destination_country ==
        profile.typical_countries[ChoiceIdx(d[6], profile.typical_countries)]
      tail == TailFields(origin_country, d, 7)
  IN  [ row |-> [ transaction_id |-> NoneId,
                  customer_id |-> customer_id,
                  timestamp |-> timestamp,
                  amount |-> NormalAmount(profile, d),
                  currency |-> tail.currency,
                  origin_country |-> origin_country,
                  destination_country |-> destination_country,
                  channel |-> tail.channel,
                  device_type |-> tail.device_type,
                  is_anomaly |-> 0 ],
        hour |-> hour,
        anomaly_type |-> "none",
        used |-> tail.used ]

\* the rule applied to an anomalous row, lines 257-279: amount (cents),
\* hour, destination country, and the number of draws used so far
AnomalyRule(anomaly_type, profile, hour0, destination0, d) ==
  LET max_amount == profile.typical_range[2]
  IN  CASE anomaly_type = "high_amount_unusual_user" ->
             [ amount |->
                 IF max_amount < LOW_SPENDER_THRESHOLD
                   THEN UniformCents(d[4], HIGH_AMOUNT_MIN * 100,
                                     MAX_TRANSACTION_AMOUNT * 100)
                   ELSE UniformCents(d[4], max_amount * 2 * 100,
                                     MAX_TRANSACTION_AMOUNT * 100),
               hour |-> hour0, destination_country |-> destination0, used |-> 4 ]
        [] anomaly_type = "unusual_time" ->
             [ amount |-> UniformCents(d[5], max_amount * 50, max_amount * 300),
               hour |-> UNUSUAL_HOURS[ChoiceIdx(d[4], UNUSUAL_HOURS)],
               destination_country |-> destination0, used |-> 5 ]
        [] anomaly_type = "unusual_country" ->
             [ amount |-> UniformCents(d[5], max_amount * 30, max_amount * 200),
               hour |-> hour0,
               destination_country |->
                 UNUSUAL_COUNTRIES[ChoiceIdx(d[4], UNUSUAL_COUNTRIES)],
               used |-> 5 ]
        [] OTHER ->
             [ amount |-> UniformCents(d[4], 15000 * 100,
                                       MAX_TRANSACTION_AMOUNT * 100),
               hour |-> UNUSUAL_HOURS[ChoiceIdx(d[5], UNUSUAL_HOURS)],
               destination_country |->
                 UNUSUAL_COUNTRIES[ChoiceIdx(d[6], UNUSUAL_COUNTRIES)],
               used |-> 6 ]

\* one iteration of the loop of _generate_anomaly_transactions after the
\* profile look-up
AnomalyRow(customer_id, profile, start_date, d) ==
  LET anomaly_type == ANOMALY_TYPES[ChoiceIdx(d[1], ANOMALY_TYPES)]
      origin_country == profile.home_country
      destination0 ==
        profile.typical_countries[ChoiceIdx(d[2], profile.typical_countries)]
      hour0 == RandInt(d[3], profile.typical_hour_range[1],
                       profile.typical_hour_range[2])
      rule == AnomalyRule(anomaly_type, profile, hour0, destination0, d)
      timestamp == Timestamp(start_date,
                             RandInt(d[rule.used + 1], 0, DAYS_LOOKBACK),
                             rule.hour, RandInt(d[rule.used + 2], 0, 59))
      tail == TailFields(origin_country, d, rule.used + 3)
  IN  [ row |-> [ transaction_id |-> NoneId,
                  customer_id |-> customer_id,
                  timestamp |-> timestamp,
                  amount |-> rule.amount,
                  currency |-> tail.currency,
                  origin_country |-> origin_country,
                  destination_country |-> rule.destination_country,
                  channel |-> tail.channel,
                  device_type |-> tail.device_type,
                  is_anomaly |-> 1 ],
        hour |-> rule.hour,
        anomaly_type |-> anomaly_type,
        used |-> tail.used ]

\* the most draws one row can use
MaxDraws == 11

-----------------------------------------------------------------------------
(* generate_dataset *)

\* [f"CUST{str(i).zfill(6)}" for i in range(n_customers)]
CustomerIds(n_customers) == [i \in 1 .. n_customers |-> CustomerId(i - 1)]

\* max(MIN_CUSTOMERS, n // TRANSACTIONS_PER_CUSTOMER)
NormalPoolSize(n) == Max(MIN_CUSTOMERS, n \div TRANSACTIONS_PER_CUSTOMER)

\* the anomalous pool with one customer per five rows
AnomalyPoolSizeFifth(n) == Max(MIN_CUSTOMERS \div 2, n \div 5)

\* max(MIN_CUSTOMERS // 2, n // ANOMALY_CUSTOMERS_RATIO)
AnomalyPoolSize(n) == Max(MIN_CUSTOMERS \div 2, n \div ANOMALY_CUSTOMERS_RATIO)

\* the state a generation loop carries: the rng, the profile store, the rows
\* appended so far, what was drawn for each of them (hour, anomaly type,
\* profile type), and whether random.choice met an empty list (IndexError)
LoopState(s, profiles) ==
  [rng |-> s, profiles |-> profiles, rows |-> <<>>, drawn |-> <<>>,
   raised |-> FALSE]

AppendRow(st, r, profiles, s, profile) ==
  [ rng |-> Skip(s, r.used),
    profiles |-> profiles,
    rows |-> Append(st.rows, r.row),
    drawn |-> Append(st.drawn, [hour |-> r.hour,
                                anomaly_type |-> r.anomaly_type,
                                type |-> profile.type]),
    raised |-> st.raised ]

\* random.choice(customer_ids) over the pool of n_customers ids
ChooseCustomer(s, n_customers) ==
  CustomerIds(n_customers)[1 + RandBelow(s, n_customers)]

\* the store with no count changed
CountTransactionSkipped(profiles, customer_id) == profiles

\* profile['transaction_count'] += 1 on the stored profile
CountTransaction(profiles, customer_id) ==
  [profiles EXCEPT ![customer_id].transaction_count = @ + 1]

\* the body of `for _ in range(n)` of _generate_normal_transactions
NormalStep(st, start_date, n_customers) ==
  IF n_customers <= 0 THEN [st EXCEPT !.raised = TRUE]
  ELSE
    LET customer_id == ChooseCustomer(st.rng, n_customers)
        got == GetCustomerProfile(st.profiles, customer_id, NextRng(st.rng))
        profiles == CountTransaction(got.profiles, customer_id)
        r == NormalRow(customer_id, profiles[customer_id], start_date,
                       Draws(got.rng, MaxDraws))
    IN  AppendRow(st, r, profiles, got.rng, profiles[customer_id])

\* the body of `for _ in range(n)` of _generate_anomaly_transactions
AnomalyStep(st, start_date, n_customers) ==
  IF n_customers <= 0 THEN [st EXCEPT !.raised = TRUE]
  ELSE
    LET customer_id == ChooseCustomer(st.rng, n_customers)
        got == GetCustomerProfile(st.profiles, customer_id, NextRng(st.rng))
        r == AnomalyRow(customer_id, got.profiles[customer_id], start_date,
                        Draws(got.rng, MaxDraws))
    IN  AppendRow(st, r, got.profiles, got.rng, got.profiles[customer_id])

\* _generate_normal_transactions(n): range(n) is empty for n <= 0
RECURSIVE NormalLoop(_, _, _, _)
NormalLoop(k, st, start_date, n_customers) ==
  IF k <= 0 \/ st.raised THEN st
  ELSE NormalLoop(k - 1, NormalStep(st, start_date, n_customers),
                  start_date, n_customers)

GenerateNormalTransactions(n, s, profiles, clock) ==
  NormalLoop(n, LoopState(s, profiles), clock - DAYS_LOOKBACK * MinutesPerDay,
             NormalPoolSize(n))

\* _generate_anomaly_transactions(n)
RECURSIVE AnomalyLoop(_, _, _, _)
AnomalyLoop(k, st, start_date, n_customers) ==
  IF k <= 0 \/ st.raised THEN st
  ELSE AnomalyLoop(k - 1, AnomalyStep(st, start_date, n_customers),
                   start_date, n_customers)

GenerateAnomalyTransactions(n, s, profiles, clock) ==
  AnomalyLoop(n, LoopState(s, profiles), clock - DAYS_LOOKBACK * MinutesPerDay,
              AnomalyPoolSize(n))

\* the private generator numpy.random.RandomState(seed) that
\* DataFrame.sample(frac=1, random_state=seed) draws its permutation from
SampleSeed(seed) == NextRng(NextRng(seed % RngModulus) + 1)

\* s without its j-th element
RemoveAt(s, j) == [i \in 1 .. Len(s) - 1 |-> IF i < j THEN s[i] ELSE s[i + 1]]

\* a draw with replacement of as many rows
SampleReplace(rows, s) ==
  LET pick[k \in 0 .. Len(rows)] ==
        IF k = 0 THEN <<>>
        ELSE Append(pick[k - 1], rows[ChoiceIdx(Skip(s, k - 1), rows)])
  IN  pick[Len(rows)]

\* sample(frac=1): a draw without replacement of every row
RECURSIVE Sample(_, _)
Sample(rows, s) ==
  IF Len(rows) = 0 THEN <<>>
  ELSE LET j == ChoiceIdx(s, rows)
       IN  <<rows[j]>> \o Sample(RemoveAt(rows, j), NextRng(s))

\* all_transactions['transaction_id'] = [f"TXN..." for i in range(len(...))]
AssignIds(rows) ==
  [i \in 1 .. Len(rows) |-> [rows[i] EXCEPT !.transaction_id = TransactionId(i - 1)]]

\* round(self.n_transactions * self.anomaly_ratio)
NAnomaliesRounded(n_transactions, anomaly_ratio) ==
  IF n_transactions * anomaly_ratio >= 0
    THEN RoundHalfEven(n_transactions * anomaly_ratio, RatioDen)
    ELSE -RoundHalfEven(-(n_transactions * anomaly_ratio), RatioDen)

\* int(self.n_transactions * self.anomaly_ratio)
NAnomalies(n_transactions, anomaly_ratio) ==
  IntTrunc(n_transactions * anomaly_ratio, RatioDen)

\* one normal row too many
NNormalPlusOne(n_transactions, n_anomalies) == n_transactions - n_anomalies + 1

\* self.n_transactions - n_anomalies
NNormal(n_transactions, n_anomalies) == n_transactions - n_anomalies

\* generate_dataset of the generator record self, with the process-wide rng
\* at s and the wall clock at clock
GenerateDatasetResult(self, s, clock) ==
  LET n_anomalies == NAnomalies(self.n_transactions, self.anomaly_ratio)
      n_normal == NNormal(self.n_transactions, n_anomalies)
      normal == GenerateNormalTransactions(n_normal, s, self.customer_profiles,
                                           clock)
      anomaly == IF normal.raised THEN normal
                 ELSE GenerateAnomalyTransactions(n_anomalies, normal.rng,
                                                  normal.profiles, clock)
      raised == normal.raised \/ anomaly.raised
      all_transactions == normal.rows \o anomaly.rows
  IN  [ rng |-> anomaly.rng,
        self |->
          [self EXCEPT
             !.customer_profiles = anomaly.profiles,
             !.runs = @ + 1,
             !.raised = raised,
             !.returned = ~raised,
             !.normal_transactions = normal.rows,
             !.anomaly_transactions = IF normal.raised THEN <<>> ELSE anomaly.rows,
             !.drawn = IF normal.raised THEN normal.drawn
                       ELSE normal.drawn \o anomaly.drawn,
             !.dataset =
               IF raised THEN <<>>
               ELSE AssignIds(Sample(all_transactions, SampleSeed(self.seed)))] ]

-----------------------------------------------------------------------------
(* State *)

NoGenerator ==
  [ constructed |-> FALSE, n_transactions |-> 0, anomaly_ratio |-> 0,
    seed |-> 0, customer_profiles |-> NoProfiles, runs |-> 0,
    raised |-> FALSE, returned |-> FALSE, normal_transactions |-> <<>>,
    anomaly_transactions |-> <<>>, drawn |-> <<>>, dataset |-> <<>> ]

NoRow == [kind |-> "none"]

\* the detector before AnomalyDetector(...) ran
NoDetector ==
  [ constructed |-> FALSE, model_type |-> "isolation_forest",
    contamination |-> 1, model |-> [kind |-> "None"], fits |-> 0,
    last |-> [op |-> "none", outcome |-> "none", value |-> <<>>] ]

\* the columns encode_features encodes, in the order it walks them
categorical_cols ==
  <<"currency", "origin_country", "destination_country", "channel",
    "device_type">>

\* an entry of self.label_encoders: no entry, an encoder stored but not
\* fitted, or a fitted encoder with its classes_ in order
NoEncoder == [state |-> "absent", classes |-> <<>>]
UnfittedEncoder == [state |-> "unfitted", classes |-> <<>>]

\* the processor before DataProcessor() ran; self.label_encoders = {}
NoProcessor ==
  [ constructed |-> FALSE,
    label_encoders |-> [col \in Range(categorical_cols) |-> NoEncoder],
    calls |-> 0,
    last |-> [outcome |-> "none", error |-> "none", df |-> <<>>,
              encoded |-> <<>>] ]

\* a generation loop over one profile store, before its first iteration
NoLoop == [st |-> LoopState(0, NoProfiles), steps |-> 0]

\* no pool sizes computed yet
NoPools == [computed |-> FALSE]

Init ==
  /\ rng = 0
  /\ now = NowBase
  /\ gens = [g \in Generators |-> NoGenerator]
  /\ lastRow = NoRow
  /\ det = NoDetector
  /\ proc = NoProcessor
  /\ loop = NoLoop
  /\ pools = NoPools

\* TransactionDataGenerator(n_transactions, anomaly_ratio, seed)
Construct(g, n_transactions, anomaly_ratio, seed) ==
  /\ ~gens[g].constructed
  /\ gens' = [gens EXCEPT ![g] =
                [NoGenerator EXCEPT !.constructed = TRUE,
                                    !.n_transactions = n_transactions,
                                    !.anomaly_ratio = anomaly_ratio,
                                    !.seed = seed]]
  /\ rng' = RandomSeed(seed)
  /\ UNCHANGED <<now, lastRow, det, proc, loop, pools>>

\* g.generate_dataset()
GenerateDataset(g) ==
  /\ gens[g].constructed
  /\ gens[g].runs < MaxRuns
  /\ LET res == GenerateDatasetResult(gens[g], rng, now)
     IN  /\ gens' = [gens EXCEPT ![g] = res.self]
         /\ rng' = res.rng
  /\ UNCHANGED <<now, lastRow, det, proc, loop, pools>>

\* the wall clock advances
Tick ==
  /\ now < NowBase + MaxTicks * TickStep
  /\ now' = now + TickStep
  /\ UNCHANGED <<rng, gens, lastRow, det, proc, loop, pools>>

\* One process with one generator, as main() runs it (src/main.py:18-23)
MainGenerator == 1

Next ==
  \/ \E n \in 0 .. MaxN, r \in RatioNums, seed \in Seeds :
       Construct(MainGenerator, n, r, seed)
  \/ GenerateDataset(MainGenerator)
  \/ Tick

Spec == Init /\ [][Next]_vars

\* One process with several generator instances sharing the `random` module
SharedRatioNums == {0, 4}

SharedNext ==
  \/ \E g \in Generators, n \in 1 .. MaxN, r \in SharedRatioNums, seed \in Seeds :
       Construct(g, n, r, seed)
  \/ \E g \in Generators : gens[g].runs = 0 /\ GenerateDataset(g)
  \/ Tick

SharedSpec == Init /\ [][SharedNext]_vars

-----------------------------------------------------------------------------
(* Row synthesis on chosen draws: every profile, and for every draw of a   *)
(* row the raw values that reach each branch and each end of each range.   *)

\* the least rng state s with RandBelow(s, n) = k
RawFor(k, n) == (k * RngModulus + n - 1) \div n

RawEnds == {0, RngModulus - 1}
RawThirds == {0, RngModulus \div 2, RngModulus - 1}
RawQuarters == {RawFor(k, 4) : k \in 0 .. 3} \cup {RngModulus - 1}
RawSegments ==
  {0, RawFor(LOW_RANGE_PROBABILITY, UDen) - 1, RawFor(LOW_RANGE_PROBABILITY, UDen),
   RawFor(MEDIUM_RANGE_PROBABILITY, UDen) - 1,
   RawFor(MEDIUM_RANGE_PROBABILITY, UDen)}

AllProfiles ==
  {MakeProfile(ty, home) :
     ty \in Range(CustomerTypes), home \in {"ES", "FR", "IT", "DE", "GB", "US", "CH"}}

Profiles ==
  {p \in AllProfiles : p.home_country \in Range(p.typical_countries)}

\* the draws of one row: the first six chosen one by one, the rest equal to q
RowDraws(head, q) == [k \in 1 .. MaxDraws |-> IF k <= 6 THEN head[k] ELSE q]

Synthesized(profile, r) ==
  [kind |-> "row", row |-> r.row, hour |-> r.hour,
   anomaly_type |-> r.anomaly_type, profile |-> profile]

SynthNormal(profile, head, q) ==
  /\ lastRow' = Synthesized(profile,
                  NormalRow(CustomerId(0), profile,
                            now - DAYS_LOOKBACK * MinutesPerDay, RowDraws(head, q)))
  /\ UNCHANGED <<rng, now, gens, det, proc, loop, pools>>

SynthAnomaly(profile, head, q) ==
  /\ lastRow' = Synthesized(profile,
                  AnomalyRow(CustomerId(0), profile,
                             now - DAYS_LOOKBACK * MinutesPerDay, RowDraws(head, q)))
  /\ UNCHANGED <<rng, now, gens, det, proc, loop, pools>>

\* each run synthesizes one row
RowNext ==
  \/ /\ lastRow = NoRow
     /\ \E profile \in Profiles, q \in RawQuarters,
           head \in RawSegments \X RawThirds \X RawEnds \X RawEnds \X {0} \X RawEnds :
          SynthNormal(profile, head, q)
  \/ /\ lastRow = NoRow
     /\ \E profile \in Profiles, q \in RawQuarters,
           head \in RawQuarters \X RawEnds \X RawEnds \X RawThirds \X RawThirds
                    \X RawThirds :
          SynthAnomaly(profile, head, q)

RowSpec == Init /\ [][RowNext]_vars

-----------------------------------------------------------------------------
(* AnomalyDetector (src/src/model_trainer.py).  A feature matrix is a      *)
(* sequence of rows; a row is one number.                                  *)

FeatureValues == {0, 5}

Matrices == UNION {[1 .. n -> FeatureValues] : n \in 0 .. MaxRows}

ModelTypes == {"isolation_forest", "lof", "svm"}

\* contamination is ContNum / ContDen; scikit-learn accepts (0, 0.5]
ContDen == 4
Contaminations == {1, 2}

\* What a fitted estimator answers for a row depends on the forest (or the
\* neighbourhood) the fit built; it is one number per row, negative, the
\* lower the more abnormal.  Any such assignment is allowed here.
LibScores == {-3, -2, -1}
ScoreTables == [FeatureValues -> LibScores]

\* the estimator object train() assigns to self.model before fitting it
Estimator(kind, contamination) ==
  [kind |-> kind, contamination |-> contamination, fitted |-> FALSE,
   X |-> <<>>, scores |-> [v \in {} |-> 0]]

\* estimator.fit(X): scikit-learn refuses a matrix with no rows
FitRaises(X) == Len(X) = 0

\* s with x put before the first element greater than x
RECURSIVE Insert(_, _)
Insert(s, x) ==
  IF Len(s) = 0 THEN <<x>>
  ELSE IF x <= s[1] THEN <<x>> \o s
  ELSE <<s[1]>> \o Insert(Tail(s), x)

\* sorted(s), ascending
RECURSIVE SortAsc(_)
SortAsc(s) == IF Len(s) = 0 THEN <<>> ELSE Insert(SortAsc(Tail(s)), s[1])

\* den * numpy.percentile(s, 100 * num / den), with linear interpolation
\* between the two nearest ranks; s is not empty
PercentileTimes(s, num, den) ==
  LET sorted == SortAsc(s)
      pos == num * (Len(s) - 1)
      lo == 1 + pos \div den
      frac == pos % den
  IN  IF frac = 0 THEN den * sorted[lo]
      ELSE den * sorted[lo] + frac * (sorted[lo + 1] - sorted[lo])

\* the fitted estimator's score_samples(X)
LibScoreSamples(model, X) == [i \in 1 .. Len(X) |-> model.scores[X[i]]]

\* ContDen * offset_: fit sets offset_ to the contamination-percentile of
\* the training rows' scores
LibOffsetTimes(model) ==
  PercentileTimes(LibScoreSamples(model, model.X), model.contamination, ContDen)

\* the fitted estimator's predict(X): -1 where score_samples(X) - offset_ < 0,
\* 1 elsewhere
LibPredict(model, X) ==
  [i \in 1 .. Len(X) |->
     IF ContDen * LibScoreSamples(model, X)[i] - LibOffsetTimes(model) < 0
       THEN -1 ELSE 1]

\* a call on self.model raises when it is None (AttributeError) or was
\* never fitted (NotFittedError)
ModelRaises(model) == model.kind = "None" \/ ~model.fitted

Outcome(op, outcome, value) == [op |-> op, outcome |-> outcome, value |-> value]

\* scores returned as they come from the estimator
KeepScores(scores) == scores

\* return -scores
NegateScores(scores) == [i \in 1 .. Len(scores) |-> -scores[i]]

\* (predictions == -1).astype(int)
AnomalyFlags(predictions) ==
  [i \in 1 .. Len(predictions) |-> IF predictions[i] = -1 THEN 1 ELSE 0]

\* what predict(X) returns on a detector whose model is fitted
PredictValue(d, X) == AnomalyFlags(LibPredict(d.model, X))

\* what score_samples(X) returns on a detector whose model is fitted or
\* whose model_type is unsupported
ScoreSamplesValue(d, X) ==
  IF d.model_type \in {"isolation_forest", "lof"}
    THEN NegateScores(LibScoreSamples(d.model, X))
    ELSE NegateScores([i \in 1 .. Len(X) |-> 0])

\* AnomalyDetector(model_type=..., contamination=...)
DetInit(model_type, contamination) ==
  /\ ~det.constructed
  /\ det' = [NoDetector EXCEPT !.constructed = TRUE, !.model_type = model_type,
                               !.contamination = contamination,
                               !.last = Outcome("init", "returned", <<>>)]
  /\ UNCHANGED <<rng, now, gens, lastRow, proc, loop, pools>>

\* detector.train(X); scores is what the estimator fitted on X will answer
Train(X, scores) ==
  /\ det.constructed
  /\ det.fits < MaxFits
  /\ det' =
       IF det.model_type \in {"isolation_forest", "lof"}
         THEN IF FitRaises(X)
                THEN [det EXCEPT !.model = Estimator(det.model_type,
                                                     det.contamination),
                                 !.last = Outcome("train", "raised", <<>>)]
                ELSE [det EXCEPT !.model =
                                   [Estimator(det.model_type, det.contamination)
                                      EXCEPT !.fitted = TRUE, !.X = X,
                                             !.scores = scores],
                                 !.fits = @ + 1,
                                 !.last = Outcome("train", "returned", <<>>)]
         ELSE [det EXCEPT !.last = Outcome("train", "raised", <<>>)]
  /\ UNCHANGED <<rng, now, gens, lastRow, proc, loop, pools>>

\* detector.predict(X)
Predict(X) ==
  /\ det.constructed
  /\ det' =
       IF ModelRaises(det.model)
         THEN [det EXCEPT !.last = Outcome("predict", "raised", <<>>)]
         ELSE [det EXCEPT !.last = Outcome("predict", "returned",
                                           PredictValue(det, X))]
  /\ UNCHANGED <<rng, now, gens, lastRow, proc, loop, pools>>

\* detector.score_samples(X)
ScoreSamples(X) ==
  /\ det.constructed
  /\ det' =
       IF det.model_type \in {"isolation_forest", "lof"} /\ ModelRaises(det.model)
         THEN [det EXCEPT !.last = Outcome("score_samples", "raised", <<>>)]
         ELSE [det EXCEPT !.last = Outcome("score_samples", "returned",
                                           ScoreSamplesValue(det, X))]
  /\ UNCHANGED <<rng, now, gens, lastRow, proc, loop, pools>>

DetNext ==
  \/ \E model_type \in ModelTypes, contamination \in Contaminations :
       DetInit(model_type, contamination)
  \/ \E X \in Matrices, scores \in ScoreTables : Train(X, scores)
  \/ \E X \in Matrices : Predict(X)
  \/ \E X \in Matrices : ScoreSamples(X)

DetSpec == Init /\ [][DetNext]_vars

-----------------------------------------------------------------------------
(* DataProcessor.encode_features (src/src/data_processor.py).  A data      *)
(* frame is the set of its column names and the sequence of its rows.      *)

MaxFrameRows == 2
MaxCalls == 3

\* every category value of the model, in the order Python sorts strings
Alphabet ==
  <<"CHF", "ES", "EUR", "FR", "GB", "USD", "app", "desktop", "mobile", "web">>

FrameRows ==
  { [currency |-> "EUR", origin_country |-> "ES", destination_country |-> "ES",
     channel |-> "web", device_type |-> "desktop"],
    [currency |-> "USD", origin_country |-> "ES", destination_country |-> "FR",
     channel |-> "app", device_type |-> "desktop"],
    [currency |-> "CHF", origin_country |-> "GB", destination_country |-> "ES",
     channel |-> "web", device_type |-> "mobile"] }

\* the frames passed to encode_features: all five columns, or channel missing
Frames ==
  { [columns |-> cols, rows |-> rows] :
      cols \in {Range(categorical_cols), Range(categorical_cols) \ {"channel"}},
      rows \in UNION {[1 .. n -> FrameRows] : n \in 0 .. MaxFrameRows} }

\* df[col].astype(str), for a column the frame has
Column(df, col) == [i \in 1 .. Len(df.rows) |-> df.rows[i][col]]

\* LabelEncoder.fit: classes_ is the sorted distinct values
Classes(values) == SelectSeq(Alphabet, LAMBDA v : v \in Range(values))

\* LabelEncoder.transform on fitted classes_: each value's position, from 0
Codes(classes, values) ==
  [i \in 1 .. Len(values) |->
     (CHOOSE k \in 1 .. Len(classes) : classes[k] = values[i]) - 1]

ColumnResult(encoder, error, codes) ==
  [encoder |-> encoder, error |-> error, codes |-> codes]

\* the loop body with the encoder fitted anew on every call
EncodeColumnRefit(encoder, df, col) ==
  IF col \notin df.columns
    THEN ColumnResult(UnfittedEncoder, "KeyError", <<>>)
    ELSE LET classes == Classes(Column(df, col))
         IN  ColumnResult([state |-> "fitted", classes |-> classes], "none",
                          Codes(classes, Column(df, col)))

\* the body of `for col in categorical_cols`, lines 79-83: the entry of
\* self.label_encoders after it, the error it raised, the codes it wrote
EncodeColumn(encoder, df, col) ==
  IF encoder.state = "absent"
    THEN IF col \notin df.columns
           THEN ColumnResult(UnfittedEncoder, "KeyError", <<>>)
           ELSE LET classes == Classes(Column(df, col))
                IN  ColumnResult([state |-> "fitted", classes |-> classes],
                                 "none", Codes(classes, Column(df, col)))
    ELSE IF col \notin df.columns
           THEN ColumnResult(encoder, "KeyError", <<>>)
         ELSE IF encoder.state = "unfitted"
           THEN ColumnResult(encoder, "NotFittedError", <<>>)
         ELSE IF \E v \in Range(Column(df, col)) : v \notin Range(encoder.classes)
           THEN ColumnResult(encoder, "ValueError", <<>>)
         ELSE ColumnResult(encoder, "none", Codes(encoder.classes, Column(df, col)))

\* the loop from its k-th column on: the encoders, the error that stopped
\* it, and the *_encoded columns written so far
RECURSIVE EncodeFrom(_, _, _, _)
EncodeFrom(k, label_encoders, df, encoded) ==
  IF k > Len(categorical_cols)
    THEN [label_encoders |-> label_encoders, error |-> "none",
          encoded |-> encoded]
    ELSE LET col == categorical_cols[k]
             r == EncodeColumn(label_encoders[col], df, col)
             encoders == [label_encoders EXCEPT ![col] = r.encoder]
         IN  IF r.error # "none"
               THEN [label_encoders |-> encoders, error |-> r.error,
                     encoded |-> <<>>]
               ELSE EncodeFrom(k + 1, encoders, df, Append(encoded, r.codes))

\* DataProcessor()
ProcInit ==
  /\ ~proc.constructed
  /\ proc' = [NoProcessor EXCEPT !.constructed = TRUE]
  /\ UNCHANGED <<rng, now, gens, lastRow, det, loop, pools>>

\* processor.encode_features(df)
EncodeFeatures(df) ==
  /\ proc.constructed
  /\ proc.calls < MaxCalls
  /\ LET r == EncodeFrom(1, proc.label_encoders, df, <<>>)
     IN  proc' = [proc EXCEPT
                    !.label_encoders = r.label_encoders,
                    !.calls = @ + 1,
                    !.last = [outcome |-> IF r.error = "none" THEN "returned"
                                          ELSE "raised",
                              error |-> r.error, df |-> df,
                              encoded |-> r.encoded]]
  /\ UNCHANGED <<rng, now, gens, lastRow, det, loop, pools>>

ProcNext ==
  \/ ProcInit
  \/ \E df \in Frames : EncodeFeatures(df)

ProcSpec == Init /\ [][ProcNext]_vars

-----------------------------------------------------------------------------
(* The profile store under interleaved normal and anomalous iterations.    *)
(* Each iteration starts from an arbitrary position of the random stream,  *)
(* chosen so that the same customers come up again.                        *)

MaxSteps == 3

\* positions of the stream that pick the first ids of either pool and draw
\* different profiles for them
RawStarts == {0, 100, 300, 600, 700, 1400}

\* one iteration of the loop of _generate_normal_transactions
StoreNormal(s) ==
  /\ loop.steps < MaxSteps
  /\ loop' = [st |-> NormalStep([loop.st EXCEPT !.rng = s],
                                now - DAYS_LOOKBACK * MinutesPerDay,
                                NormalPoolSize(MaxN)),
              steps |-> loop.steps + 1]
  /\ UNCHANGED <<rng, now, gens, lastRow, det, proc, pools>>

\* one iteration of the loop of _generate_anomaly_transactions
StoreAnomaly(s) ==
  /\ loop.steps < MaxSteps
  /\ loop' = [st |-> AnomalyStep([loop.st EXCEPT !.rng = s],
                                 now - DAYS_LOOKBACK * MinutesPerDay,
                                 AnomalyPoolSize(MaxN)),
              steps |-> loop.steps + 1]
  /\ UNCHANGED <<rng, now, gens, lastRow, det, proc, pools>>

StoreNext ==
  \/ \E s \in RawStarts : StoreNormal(s)
  \/ \E s \in RawStarts : StoreAnomaly(s)

StoreSpec == Init /\ [][StoreNext]_vars

-----------------------------------------------------------------------------
(* The two customer pools of one generate_dataset call, for dataset sizes  *)
(* large enough that either pool leaves its minimum.                       *)

MaxPoolK == 20

\* n_transactions is a multiple of PoolStep
PoolStep == 77

PoolSizes == {k * PoolStep : k \in 0 .. MaxPoolK}

\* anomaly_ratio in [0, 1), in eighths
PoolRatioNums == 0 .. RatioDen - 1

\* the pool sizes lines 132-133, 155 and 236 compute for the parameters
ComputePools(n_transactions, anomaly_ratio) ==
  /\ ~pools.computed
  /\ LET n_anomalies == NAnomalies(n_transactions, anomaly_ratio)
         n_normal == NNormal(n_transactions, n_anomalies)
     IN  pools' = [ computed |-> TRUE,
                    n_transactions |-> n_transactions,
                    anomaly_ratio |-> anomaly_ratio,
                    n_anomalies |-> n_anomalies,
                    n_normal |-> n_normal,
                    normal |-> NormalPoolSize(n_normal),
                    anomaly |-> AnomalyPoolSize(n_anomalies) ]
  /\ UNCHANGED <<rng, now, gens, lastRow, det, proc, loop>>

PoolNext ==
  \E n_transactions \in PoolSizes, anomaly_ratio \in PoolRatioNums :
    ComputePools(n_transactions, anomaly_ratio)

PoolSpec == Init /\ [][PoolNext]_vars

-----------------------------------------------------------------------------
(* Properties *)

Count(seq, x) == Cardinality({i \in 1 .. Len(seq) : seq[i] = x})

Labelled(seq, label) == Cardinality({i \in 1 .. Len(seq) : seq[i].is_anomaly = label})

\* the number a sequence of decimal digit characters writes
RECURSIVE DecimalValue(_)
DecimalValue(s) ==
  IF Len(s) = 0 THEN 0
  ELSE 10 * DecimalValue(SubSeq(s, 1, Len(s) - 1))
       + (CHOOSE k \in 0 .. 9 : DigitChars[k + 1] = s[Len(s)])

ValidRatio(r) == 0 <= r /\ r < RatioDen

SameParameters(a, b) ==
  /\ a.n_transactions = b.n_transactions
  /\ a.anomaly_ratio = b.anomaly_ratio
  /\ a.seed = b.seed

\* C1: two generators constructed with the same (n_transactions,
\* anomaly_ratio, seed) that each ran generate_dataset return the same
\* dataset (same rows, same field values, same order, same IDs), whatever
\* the wall clock and whatever other instance was constructed or run between.
C1_Determinism ==
  \A g, h \in Generators :
    (gens[g].returned /\ gens[h].returned /\ SameParameters(gens[g], gens[h]))
      => gens[g].dataset = gens[h].dataset

\* the row has a field outside the normal values of the profile it was drawn for
OutsideProfile(s) ==
  \/ s.row.amount < s.profile.typical_range[1] * 100
  \/ s.row.amount > s.profile.typical_range[2] * 100
  \/ s.hour < s.profile.typical_hour_range[1]
  \/ s.hour > s.profile.typical_hour_range[2]
  \/ s.row.destination_country \notin Range(s.profile.typical_countries)

\* C2: every row labelled is_anomaly = 1 has its amount outside the
\* profile's typical_range, or its hour outside typical_hour_range, or its
\* destination country outside typical_countries.
C2_AnomalyOutsideProfile ==
  (lastRow.kind = "row" /\ lastRow.row.is_anomaly = 1) => OutsideProfile(lastRow)

Ran(g) == gens[g].runs >= 1

\* C3 as stated: for anomaly_ratio in [0,1) the dataset holds exactly
\* round(n_transactions * anomaly_ratio) rows labelled 1 and the rest of the
\* n_transactions rows labelled 0.
C3_RoundedCount ==
  \A g \in Generators :
    (Ran(g) /\ ValidRatio(gens[g].anomaly_ratio)) =>
      LET k == RoundHalfEven(gens[g].n_transactions * gens[g].anomaly_ratio, RatioDen)
      IN  /\ gens[g].returned
          /\ Labelled(gens[g].dataset, 1) = k
          /\ Labelled(gens[g].dataset, 0) = gens[g].n_transactions - k

\* C3 amended: for anomaly_ratio in [0,1) the dataset holds exactly
\* int(n_transactions * anomaly_ratio) rows labelled 1 (the product truncated,
\* not rounded) and the rest of the n_transactions rows labelled 0.
C3_TruncatedCount ==
  \A g \in Generators :
    (Ran(g) /\ ValidRatio(gens[g].anomaly_ratio)) =>
      LET k == (gens[g].n_transactions * gens[g].anomaly_ratio) \div RatioDen
      IN  /\ gens[g].returned
          /\ Labelled(gens[g].dataset, 1) = k
          /\ Labelled(gens[g].dataset, 0) = gens[g].n_transactions - k
          /\ Len(gens[g].dataset) = gens[g].n_transactions

\* a run whose truncated and rounded anomaly counts differ, with an anomaly
C3_Witness ==
  \E g \in Generators :
    /\ Ran(g) /\ ValidRatio(gens[g].anomaly_ratio)
    /\ Labelled(gens[g].dataset, 1) >= 1
    /\ Labelled(gens[g].dataset, 1) #
         RoundHalfEven(gens[g].n_transactions * gens[g].anomaly_ratio, RatioDen)

\* C4: a generator whose anomaly_ratio is outside [0,1) generates no row
\* and no customer profile and returns no dataset.
C4_InvalidRatioRejected ==
  \A g \in Generators :
    (gens[g].constructed /\ ~ValidRatio(gens[g].anomaly_ratio)) =>
      /\ ~gens[g].returned
      /\ DOMAIN gens[g].customer_profiles = {}
      /\ gens[g].normal_transactions = <<>>
      /\ gens[g].anomaly_transactions = <<>>

\* C5: generate_dataset with n_transactions = 0 and anomaly_ratio in [0,1)
\* raises nothing and returns a dataset with no rows.
C5_EmptyDataset ==
  \A g \in Generators :
    (Ran(g) /\ gens[g].n_transactions = 0 /\ ValidRatio(gens[g].anomaly_ratio)) =>
      /\ gens[g].returned
      /\ ~gens[g].raised
      /\ Len(gens[g].dataset) = 0

C5_Witness ==
  \E g \in Generators :
    /\ Ran(g) /\ gens[g].n_transactions = 0
    /\ gens[g].anomaly_ratio > 0 /\ ValidRatio(gens[g].anomaly_ratio)
    /\ gens[g].returned

\* the rows of a dataset with the transaction_id column back to None
WithoutIds(rows) ==
  [i \in 1 .. Len(rows) |-> [rows[i] EXCEPT !.transaction_id = NoneId]]

Generated(g) == gens[g].normal_transactions \o gens[g].anomaly_transactions

\* C6: in a returned dataset the row at position i (0-based) carries the ID
\* "TXN" followed by i written with 8 digits, the IDs are pairwise distinct,
\* and the rows are a permutation of the generated normal and anomalous
\* rows: none dropped, duplicated or relabelled.
C6_IdsAfterShuffle ==
  \A g \in Generators :
    gens[g].returned =>
      LET ds == gens[g].dataset
      IN  /\ \A i \in 1 .. Len(ds) :
               /\ Len(ds[i].transaction_id) = 11
               /\ SubSeq(ds[i].transaction_id, 1, 3) = <<"T", "X", "N">>
               /\ DecimalValue(SubSeq(ds[i].transaction_id, 4, 11)) = i - 1
          /\ \A i, j \in 1 .. Len(ds) :
               ds[i].transaction_id = ds[j].transaction_id => i = j
          /\ Len(ds) = Len(Generated(g))
          /\ \A i \in 1 .. Len(ds) :
               Count(WithoutIds(ds), WithoutIds(ds)[i])
                 = Count(Generated(g), WithoutIds(ds)[i])

\* a returned dataset with both labels whose order is not the generation order
C6_Witness ==
  \E g \in Generators :
    /\ gens[g].returned
    /\ Labelled(gens[g].dataset, 0) >= 1
    /\ Labelled(gens[g].dataset, 1) >= 1
    /\ WithoutIds(gens[g].dataset) # Generated(g)
    /\ gens[g].dataset[1].is_anomaly = 1

\* C7: every row labelled is_anomaly = 0 has its amount within the
\* profile's typical_range, both ends included, and its destination country
\* among the profile's typical_countries.
C7_NormalInsideProfile ==
  (lastRow.kind = "row" /\ lastRow.row.is_anomaly = 0) =>
    /\ lastRow.row.amount >= lastRow.profile.typical_range[1] * 100
    /\ lastRow.row.amount <= lastRow.profile.typical_range[2] * 100
    /\ lastRow.row.destination_country \in Range(lastRow.profile.typical_countries)

\* a normal row drawn from the high segment of its profile's range
C7_Witness ==
  /\ lastRow.kind = "row" /\ lastRow.row.is_anomaly = 0
  /\ lastRow.row.amount * 10 >
       lastRow.profile.typical_range[1] * 100 +
       9 * lastRow.profile.typical_range[2] * 100

\* C8: every row, normal or anomalous, has 0 <= amount <= 100000.
C8_AmountBounded ==
  lastRow.kind = "row" =>
    /\ lastRow.row.amount >= 0
    /\ lastRow.row.amount <= 100000 * 100

\* an anomalous row of the unusual_time rule above 70000
C8_Witness ==
  /\ lastRow.kind = "row" /\ lastRow.row.is_anomaly = 1
  /\ lastRow.anomaly_type = "unusual_time"
  /\ lastRow.row.amount > 70000 * 100

\* C9 as stated: channel is one of web, app, atm, branch and device_type
\* is one of desktop, mobile, tablet, atm, pos.
C9_SchemaEnums ==
  lastRow.kind = "row" =>
    /\ lastRow.row.channel \in {"web", "app", "atm", "branch"}
    /\ lastRow.row.device_type \in {"desktop", "mobile", "tablet", "atm", "pos"}

\* C9 amended: channel is one of web, app, cajero, sucursal and device_type
\* is one of desktop, mobile, tablet, atm, pos.
C9_CodeEnums ==
  lastRow.kind = "row" =>
    /\ lastRow.row.channel \in {"web", "app", "cajero", "sucursal"}
    /\ lastRow.row.device_type \in {"desktop", "mobile", "tablet", "atm", "pos"}

\* an anomalous row on the channel sucursal from the device pos
C9_Witness ==
  /\ lastRow.kind = "row" /\ lastRow.row.is_anomaly = 1
  /\ lastRow.row.channel = "sucursal"
  /\ lastRow.row.device_type = "pos"

\* C10: on a detector whose model_type is neither isolation_forest nor lof
\* no call completes without an error, starting with the call that received
\* the model_type; no model is fitted, the model stays unset.
C10_UnsupportedFailsFast ==
  (det.constructed /\ det.model_type \notin {"isolation_forest", "lof"}) =>
    /\ det.last.outcome # "returned"
    /\ det.fits = 0
    /\ det.model.kind = "None"

Fitted == det.constructed /\ det.model.kind # "None" /\ det.model.fitted

\* what the detector answers for the single row x
PredictOf(x) == PredictValue(det, <<x>>)[1]
ScoreOf(x) == ScoreSamplesValue(det, <<x>>)[1]

\* ContDen times the (1 - contamination)-quantile of the scores
\* score_samples gives the training rows, interpolated between ranks
ThresholdTimes ==
  LET s == SortAsc(ScoreSamplesValue(det, det.model.X))
      pos == (ContDen - det.contamination) * (Len(s) - 1)
      lo == 1 + pos \div ContDen
      frac == pos % ContDen
  IN  IF frac = 0 THEN ContDen * s[lo]
      ELSE ContDen * s[lo] + frac * (s[lo + 1] - s[lo])

HourOf(timestamp) == (timestamp \div MinutesPerHour) % 24

\* C12: the hour of the emitted timestamp lies within the profile's
\* typical_hour_range for every normal row and every anomalous row of type
\* high_amount_unusual_user or unusual_country, and is one of 0..5, 23 for
\* every anomalous row of type unusual_time or combined_anomaly, whatever
\* the wall-clock time of the run.
C12_TimestampHour ==
  lastRow.kind = "row" =>
    IF lastRow.anomaly_type \in {"unusual_time", "combined_anomaly"}
      THEN HourOf(lastRow.row.timestamp) \in Range(UNUSUAL_HOURS)
      ELSE /\ HourOf(lastRow.row.timestamp) >= lastRow.profile.typical_hour_range[1]
           /\ HourOf(lastRow.row.timestamp) <= lastRow.profile.typical_hour_range[2]

\* the frame has, in a column it carries, a value the column's fitted
\* encoder does not know
HasUnseen(df, label_encoders) ==
  \E col \in df.columns :
    /\ label_encoders[col].state = "fitted"
    /\ \E v \in Range(Column(df, col)) : v \notin Range(label_encoders[col].classes)

C13_Step ==
  /\ \A col \in Range(categorical_cols) :
       proc.label_encoders[col].state = "fitted" =>
         proc'.label_encoders[col] = proc.label_encoders[col]
  /\ (proc.calls = 0 /\ proc'.calls = 1
      /\ proc'.last.df.columns = Range(categorical_cols)) =>
       /\ proc'.last.outcome = "returned"
       /\ \A col \in Range(categorical_cols) :
            proc'.label_encoders[col] =
              [state |-> "fitted",
               classes |-> Classes(Column(proc'.last.df, col))]
  /\ (proc.calls >= 1 /\ proc'.calls = proc.calls + 1) =>
       /\ proc'.label_encoders = proc.label_encoders
       /\ HasUnseen(proc'.last.df, proc.label_encoders) =>
            proc'.last.outcome = "raised"

\* C13: across the encode_features calls on one processor the code table
\* of each categorical column is built by the first call and unchanged by
\* every later call; a later call whose data holds a category value absent
\* from the first call raises and leaves every code table unchanged.
C13_FittedOnce == [][C13_Step]_vars

\* a later call raised on a value the first call did not hold, with all
\* five tables fitted
C13_Witness ==
  /\ proc.calls >= 2
  /\ proc.last.error = "ValueError"
  /\ \A col \in Range(categorical_cols) :
       proc.label_encoders[col].state = "fitted"

\* what a profile is created with and is to keep
Static(profile) ==
  [ type |-> profile.type, typical_range |-> profile.typical_range,
    typical_hour_range |-> profile.typical_hour_range,
    typical_countries |-> profile.typical_countries,
    home_country |-> profile.home_country ]

C14_Step ==
  LET old == loop.st.profiles
      new == loop'.st.profiles
      row == loop'.st.rows[Len(loop'.st.rows)]
  IN  /\ \A c \in DOMAIN old :
           c \in DOMAIN new /\ Static(new[c]) = Static(old[c])
      /\ \A c \in DOMAIN new :
           new[c].home_country \in Range(new[c].typical_countries)
      /\ loop'.steps = loop.steps + 1 =>
           /\ Len(loop'.st.rows) = Len(loop.st.rows) + 1
           /\ DOMAIN new = DOMAIN old \cup {row.customer_id}
           /\ row.origin_country = new[row.customer_id].home_country
           /\ loop'.st.drawn[Len(loop'.st.drawn)].type = new[row.customer_id].type

\* C14: across normal and anomalous iterations a customer's profile is
\* created on its first reference only; every later reference, from either
\* loop, finds it with the same type, amount range, hour range, typical
\* countries and home country; no profile is deleted; and home_country is
\* one of typical_countries.
C14_GetOrCreate == [][C14_Step]_vars

\* one customer referred to by a normal and by an anomalous iteration
C14_Witness ==
  /\ Len(loop.st.rows) = 2
  /\ Cardinality(DOMAIN loop.st.profiles) = 1
  /\ loop.st.rows[1].is_anomaly # loop.st.rows[2].is_anomaly

\* the rows of the dataset labelled 0 that carry the customer_id
NormalRowsOf(dataset, customer_id) ==
  Cardinality({i \in 1 .. Len(dataset) :
                 dataset[i].is_anomaly = 0 /\ dataset[i].customer_id = customer_id})

\* C15 as stated, for anomaly_ratio in [0,1): after generate_dataset each
\* profile's transaction_count equals the number of is_anomaly = 0 rows of
\* the dataset carrying that customer_id, and the dataset's normal rows,
\* which the counts then sum to, are n_normal.
C15_CountMatchesDataset ==
  \A g \in Generators :
    (Ran(g) /\ ValidRatio(gens[g].anomaly_ratio)) =>
      /\ \A c \in DOMAIN gens[g].customer_profiles :
           gens[g].customer_profiles[c].transaction_count =
             NormalRowsOf(gens[g].dataset, c)
      /\ Labelled(gens[g].dataset, 0) =
           gens[g].n_transactions -
           (gens[g].n_transactions * gens[g].anomaly_ratio) \div RatioDen

C15_Step ==
  \A g \in Generators :
    gens'[g].runs = gens[g].runs + 1 =>
      LET old == gens[g].customer_profiles
          new == gens'[g].customer_profiles
          before(c) == IF c \in DOMAIN old THEN old[c].transaction_count ELSE 0
      IN  /\ \A c \in DOMAIN new :
               new[c].transaction_count - before(c) =
                 NormalRowsOf(gens'[g].dataset, c)
          /\ \A i \in 1 .. Len(gens'[g].dataset) :
               gens'[g].dataset[i].customer_id \in DOMAIN new
          /\ gens[g].runs = 0 =>
               \A c \in DOMAIN new :
                 new[c].transaction_count = NormalRowsOf(gens'[g].dataset, c)
          /\ ValidRatio(gens[g].anomaly_ratio) =>
               Labelled(gens'[g].dataset, 0) =
                 gens[g].n_transactions -
                 (gens[g].n_transactions * gens[g].anomaly_ratio) \div RatioDen

\* C15 amended: each generate_dataset call raises every profile's
\* transaction_count by exactly the number of is_anomaly = 0 rows of the
\* dataset it returns that carry the customer_id, anomalous rows and
\* look-ups adding nothing; the counts equal the dataset's normal rows per
\* customer after the first call on a generator, and each call's increases
\* sum to n_normal for anomaly_ratio in [0,1).
C15_CountPerCall == [][C15_Step]_vars

\* a second call on one generator returned normal and anomalous rows
C15_Witness ==
  \E g \in Generators :
    /\ gens[g].runs = 2
    /\ Labelled(gens[g].dataset, 0) >= 1
    /\ Labelled(gens[g].dataset, 1) >= 1

\* every id of the anomalous pool is an id of the normal pool
PoolContained ==
  Range(CustomerIds(pools.anomaly)) \subseteq Range(CustomerIds(pools.normal))

=============================================================================
